---- MODULE Spec2Model ----
(***************************************************************************)
(* The LinuxLink client of timesys-api-toolkit: the LLAPI configuration    *)
(* object, the HMAC request constructor and the transport executor         *)
(* (src/lib/timesys/core/llapi.py).                                        *)
(*                                                                         *)
(* Text is a sequence of one-character strings, so that strip, quote_plus, *)
(* unquote_plus and sorting act character by character as in Python.      *)
(* Python's None is the empty tuple <<>> and a present value v is <<v>>.   *)
(***************************************************************************)
EXTENDS Integers, Sequences, FiniteSets, TLC

\* ------------------------------------------------------------------------
\* Bounds of the model
\* ------------------------------------------------------------------------

\* a configure call supplies at most this many of its six arguments
MaxArgs == 2

\* ------------------------------------------------------------------------
\* Text: characters, ordering, joining
\* ------------------------------------------------------------------------

None == <<>>

Some(v) == <<v>>

\* the printable ASCII characters, code points 32..126 in order (code point 96,
\* the grave accent, cannot be written in a string here and is spelled out)
Ascii ==
  <<
    " ", "!", "\"", "#", "$", "%", "&", "'", "(", ")", "*", "+", ",", "-", ".", "/",
    "0", "1", "2", "3", "4", "5", "6", "7", "8", "9", ":", ";", "<", "=", ">", "?",
    "@", "A", "B", "C", "D", "E", "F", "G", "H", "I", "J", "K", "L", "M", "N", "O",
    "P", "Q", "R", "S", "T", "U", "V", "W", "X", "Y", "Z", "[", "\\", "]", "^", "_",
    "grave", "a", "b", "c", "d", "e", "f", "g", "h", "i", "j", "k", "l", "m", "n", "o",
    "p", "q", "r", "s", "t", "u", "v", "w", "x", "y", "z", "{", "|", "}", "~"
  >>

CodePoints == [c \in {Ascii[i] : i \in 1..Len(Ascii)} |-> 31 + (CHOOSE i \in 1..Len(Ascii) : Ascii[i] = c)]

Ord(c) == CodePoints[c]

Chr(n) == Ascii[n - 31]

\* Python str < str: lexicographic on code points, a proper prefix is smaller
RECURSIVE StrLess(_, _)
StrLess(a, b) ==
  IF b = <<>> THEN FALSE
  ELSE IF a = <<>> THEN TRUE
  ELSE IF a[1] = b[1] THEN StrLess(Tail(a), Tail(b))
  ELSE Ord(a[1]) < Ord(b[1])

\* the text as one string, for reading and for comparing with literals
RECURSIVE Join(_)
Join(s) == IF s = <<>> THEN "" ELSE s[1] \o Join(Tail(s))

RECURSIVE Concat(_)
Concat(ss) == IF ss = <<>> THEN <<>> ELSE ss[1] \o Concat(Tail(ss))

Whitespace == {" ", "\t", "\n", "\r"}

RECURSIVE lstrip(_)
lstrip(s) == IF s # <<>> /\ s[1] \in Whitespace THEN lstrip(Tail(s)) ELSE s

RECURSIVE rstrip(_)
rstrip(s) ==
  IF s # <<>> /\ s[Len(s)] \in Whitespace THEN rstrip(SubSeq(s, 1, Len(s) - 1)) ELSE s

strip(s) == rstrip(lstrip(s))

LowerToUpper ==
  [c \in {"a", "b", "c", "d", "e", "f", "g", "h", "i", "j", "k", "l", "m",
          "n", "o", "p", "q", "r", "s", "t", "u", "v", "w", "x", "y", "z"}
     |-> Chr(Ord(c) - 32)]

upper(s) == [i \in 1..Len(s) |-> IF s[i] \in DOMAIN LowerToUpper THEN LowerToUpper[s[i]] ELSE s[i]]

\* ------------------------------------------------------------------------
\* urllib.parse: quote_plus, unquote_plus, urlencode(doseq=True)
\* ------------------------------------------------------------------------

HexDigits == <<"0", "1", "2", "3", "4", "5", "6", "7", "8", "9", "A", "B", "C", "D", "E", "F">>

\* the value of a hex digit, in either case
HexValues ==
  [c \in {HexDigits[i] : i \in 1..16} \cup {Chr(Ord(HexDigits[i]) + 32) : i \in 11..16} |->
     (CHOOSE i \in 1..16 : HexDigits[i] = c \/ (i > 10 /\ Chr(Ord(HexDigits[i]) + 32) = c)) - 1]

IsHex(c) == c \in DOMAIN HexValues

HexVal(c) == HexValues[c]

\* characters quote_plus never encodes: letters, digits and "_.-~"
AlwaysSafe(c) ==
  \/ Ord(c) \in 48..57
  \/ Ord(c) \in 65..90
  \/ Ord(c) \in 97..122
  \/ c \in {"_", ".", "-", "~"}

Quoted ==
  [c \in DOMAIN CodePoints |->
     IF AlwaysSafe(c) THEN <<c>>
     ELSE IF c = " " THEN <<"+">>
     ELSE <<"%", HexDigits[(Ord(c) \div 16) + 1], HexDigits[(Ord(c) % 16) + 1]>>]

quote_char(c) == Quoted[c]

RECURSIVE quote_plus(_)
quote_plus(s) == IF s = <<>> THEN <<>> ELSE quote_char(s[1]) \o quote_plus(Tail(s))

\* "+" becomes a space, then every %XX with two hex digits becomes its character
RECURSIVE unquote_plus(_)
unquote_plus(s) ==
  IF s = <<>> THEN <<>>
  ELSE IF s[1] = "+" THEN <<" ">> \o unquote_plus(Tail(s))
  ELSE IF s[1] = "%" /\ Len(s) >= 3 /\ IsHex(s[2]) /\ IsHex(s[3])
            /\ 16 * HexVal(s[2]) + HexVal(s[3]) \in 32..126
       THEN <<Chr(16 * HexVal(s[2]) + HexVal(s[3]))>> \o unquote_plus(SubSeq(s, 4, Len(s)))
  ELSE <<s[1]>> \o unquote_plus(Tail(s))

\* ------------------------------------------------------------------------
\* Parameter mappings: a dict is the sequence of its <<key, value>> items in
\* insertion order, keys distinct.  A value is a str (seq = FALSE, items =
\* <<the text>>) or a list of str (seq = TRUE, items = its elements).
\* ------------------------------------------------------------------------

Str(t) == [seq |-> FALSE, items |-> <<t>>]

List(ts) == [seq |-> TRUE, items |-> ts]

Keys(d) == {d[i][1] : i \in 1..Len(d)}

HasKey(d, k) == \E i \in 1..Len(d) : d[i][1] = k

Get(d, k) == d[CHOOSE i \in 1..Len(d) : d[i][1] = k][2]

\* d[k] = v: an existing key keeps its position, a new key goes last
SetItem(d, k, v) ==
  IF HasKey(d, k)
  THEN [i \in 1..Len(d) |-> IF d[i][1] = k THEN <<k, v>> ELSE d[i]]
  ELSE Append(d, <<k, v>>)

RECURSIVE InsertStr(_, _)
InsertStr(x, s) ==
  IF s = <<>> THEN <<x>>
  ELSE IF StrLess(x, s[1]) THEN <<x>> \o s
  ELSE <<s[1]>> \o InsertStr(x, Tail(s))

\* sorted() of a list of str (stable insertion from the right end)
RECURSIVE sorted_strs(_)
sorted_strs(s) ==
  IF s = <<>> THEN <<>> ELSE InsertStr(s[Len(s)], sorted_strs(SubSeq(s, 1, Len(s) - 1)))

RECURSIVE InsertItem(_, _)
InsertItem(x, s) ==
  IF s = <<>> THEN <<x>>
  ELSE IF StrLess(x[1], s[1][1]) THEN <<x>> \o s
  ELSE <<s[1]>> \o InsertItem(x, Tail(s))

\* faulty variant: the items are left in the order of the mapping
sorted_items_unsorted(s) == s

\* sorted() of dict items: tuples compare on the key first, and the keys of a
\* dict are distinct, so the values are never compared
RECURSIVE sorted_items(_)
sorted_items(s) ==
  IF s = <<>> THEN <<>> ELSE InsertItem(s[Len(s)], sorted_items(SubSeq(s, 1, Len(s) - 1)))

\* faulty variant: a list keeps the order the caller gave it
sort_sequences_as_given(obj) == obj

\* lines 150-154: a str is returned as it is, any other sequence as the
\* sorted list of its elements
sort_sequences(obj) == IF ~obj.seq THEN obj ELSE List(sorted_strs(obj.items))

RECURSIVE JoinWith(_, _)
JoinWith(parts, sep) ==
  IF parts = <<>> THEN <<>>
  ELSE IF Len(parts) = 1 THEN parts[1]
  ELSE parts[1] \o sep \o JoinWith(Tail(parts), sep)

\* the "k=v" pairs one item contributes: one for a str, one per element for a list
ItemPairs(item) ==
  [j \in 1..Len(item[2].items) |-> quote_plus(item[1]) \o <<"=">> \o quote_plus(item[2].items[j])]

urlencode(query) == JoinWith(Concat([i \in 1..Len(query) |-> ItemPairs(query[i])]), <<"&">>)

\* str.encode("utf-8"): the texts of the model are ASCII, whose bytes are the
\* code points of its characters; a bytes value is tagged as such
Encode(t) == [bytes |-> t]

\* faulty variant: the parameters are left percent-encoded
_make_msg_quoted(method, resource, data) ==
  LET args == sorted_items([i \in 1..Len(data) |-> <<data[i][1], sort_sequences(data[i][2])>>])
  IN  Encode(method \o resource \o urlencode(args))

_make_msg(method, resource, data) ==
  LET args == sorted_items([i \in 1..Len(data) |-> <<data[i][1], sort_sequences(data[i][2])>>])
  IN  Encode(method \o resource \o unquote_plus(urlencode(args)))

\* base64(HMAC-SHA256(key, msg)); the digest is kept symbolic and collision
\* free: two signatures are equal exactly when key and message are equal
_create_hmac(key, msg) == [b64 |-> [hmac_sha256 |-> <<key, msg>>]]

\* ------------------------------------------------------------------------
\* The files configure may be pointed at (path |-> content).  A content of
\* None is a file that cannot be opened or is not JSON; otherwise it is the
\* JSON object, a function from its field names to their text.
\* ------------------------------------------------------------------------

KEY_ALICE == "/keys/alice.json"
KEY_BOB == "/keys/bob.json"
KEY_NOKEY == "/keys/nokey.json"
KEY_MISSING == "/keys/missing.json"

DASH_FULL == "/dash/full.json"
DASH_PRODUCT == "/dash/product.json"
DASH_NOPRODUCT == "/dash/noproduct.json"
DASH_MISSING == "/dash/missing.json"

EMAIL_ALICE == <<"a", "@", "b", ".", "c", "o", "m">>
EMAIL_BOB == <<"a", "+", "x", "@", "b", ".", "c", "o", "m">>
SECRET_ALICE == <<"s", "e", "c", "r", "e", "t">>
SECRET_BOB == <<"k", "2">>
PRODUCT_1 == <<"P", "1">>
FOLDER_1 == <<"F", "1">>

Files ==
  [p \in {KEY_ALICE, KEY_BOB, KEY_NOKEY, KEY_MISSING,
          DASH_FULL, DASH_PRODUCT, DASH_NOPRODUCT, DASH_MISSING} |->
     CASE p = KEY_ALICE -> Some([f \in {"email", "key"} |->
                                   IF f = "email" THEN <<" ">> \o EMAIL_ALICE
                                   ELSE SECRET_ALICE \o <<"\n">>])
       [] p = KEY_BOB -> Some([f \in {"email", "key"} |->
                                 IF f = "email" THEN EMAIL_BOB ELSE SECRET_BOB])
       [] p = KEY_NOKEY -> Some([f \in {"email"} |-> EMAIL_ALICE])
       [] p = DASH_FULL -> Some([f \in {"product", "folder"} |->
                                   IF f = "product" THEN PRODUCT_1 \o <<" ">>
                                   ELSE FOLDER_1])
       [] p = DASH_PRODUCT -> Some([f \in {"product"} |-> PRODUCT_1])
       [] p = DASH_NOPRODUCT -> Some([f \in {"folder"} |-> FOLDER_1])
       [] OTHER -> None]

UNREADABLE_KEYFILE == "Unable to read key file"
INVALID_KEYFILE == "Invalid or missing data in key file"
UNREADABLE_DASHBOARD == "Unable to read dashboard config"
INVALID_DASHBOARD == "Invalid or missing data in dashboard config"
UNKNOWN_LEVEL == "ValueError: Unknown level"
NOT_CONFIGURED == "LLAPI object has not been configured."
NOT_CONFIGURED_PROPERLY == "LLAPI object is not configured properly"

Raised(e) == [raised |-> e]

Returned(v) == [returned |-> v]

IsRaised(r) == "raised" \in DOMAIN r

parse_keyfile(key_file_path) ==
  LET key_info == Files[key_file_path]
  IN  IF key_info = None THEN Raised(UNREADABLE_KEYFILE)
      ELSE IF ~({"email", "key"} \subseteq DOMAIN key_info[1]) THEN Raised(INVALID_KEYFILE)
      ELSE Returned([email |-> strip(key_info[1]["email"]),
                     key |-> Encode(strip(key_info[1]["key"]))])

parse_dashboard_config(dashboard_config_path) ==
  LET info == Files[dashboard_config_path]
  IN  IF info = None THEN Raised(UNREADABLE_DASHBOARD)
      ELSE IF "product" \notin DOMAIN info[1] THEN Raised(INVALID_DASHBOARD)
      ELSE Returned([product_token |-> Some(strip(info[1]["product"])),
                     folder_token |-> IF "folder" \in DOMAIN info[1]
                                      THEN Some(strip(info[1]["folder"]))
                                      ELSE None])

\* ------------------------------------------------------------------------
\* The LLAPI object and configure
\* ------------------------------------------------------------------------

\* Python True, False and a str, as the values verify_cert takes
PyTrue == [type |-> "bool", value |-> "True"]
PyFalse == [type |-> "bool", value |-> "False"]
CA_BUNDLE == [type |-> "str", value |-> "/etc/ssl/ca.pem"]

DEFAULT_URL == <<"h", "t", "t", "p", "s", ":", "/", "/", "l", "i", "n", "u", "x", "l", "i", "n", "k", ".", "t", "i", "m", "e", "s", "y", "s", ".", "c", "o", "m">>
OTHER_URL == <<"h", "t", "t", "p", "s", ":", "/", "/", "e", "x", "a", "m", "p", "l", "e", ".", "t", "e", "s", "t">>

\* the level names logging.Logger.setLevel accepts
LevelNames == {"CRITICAL", "FATAL", "ERROR", "WARN", "WARNING", "INFO", "DEBUG", "NOTSET"}

DRY_RUN_WARNING == "Dry Run mode is enabled. No requests will be made."
INSECURE_WARNING == "Insecure requests are enabled. Certificates will not be verified."

\* lines 240-241: the email and key of a key file that parsed
apply_key_file(self, parsed) ==
  [self EXCEPT !.email = Some(parsed.email), !.key = Some(parsed.key)]

\* lines 243-246: both tokens of a dashboard config that parsed
apply_dashboard_config(self, parsed) ==
  [self EXCEPT !.product_token = parsed.product_token,
               !.folder_token = parsed.folder_token]

\* faulty variant: the url argument is stored even when it was omitted
set_url_unguarded(self, url) == [self EXCEPT !.url = url]

set_url(self, url) == IF url # None THEN [self EXCEPT !.url = url] ELSE self

set_dry_run(self, dry_run) == IF dry_run # None THEN [self EXCEPT !.dry_run = dry_run] ELSE self

set_verify_cert(self, verify_cert) ==
  IF verify_cert # None THEN [self EXCEPT !.verify_cert = verify_cert] ELSE self

\* lines 124-127: the name is stored, then handed to Logger.setLevel, which
\* raises on a name it does not know and leaves the logger as it was
set_log_level(self, log_level) ==
  IF log_level = None THEN self
  ELSE IF log_level[1] \in LevelNames
       THEN [self EXCEPT !.log_level = log_level[1], !.logger_level = log_level[1]]
  ELSE [self EXCEPT !.log_level = log_level[1]]

\* lines 263-267: email, key and url are required
recompute_configured(self) ==
  [self EXCEPT !.configured = ~(None \in {self.email, self.key, self.url})]

\* Logger.warning emits when the level of the logger lets WARNING through:
\* not above it, NOTSET deferring to the WARNING of the root logger
warning_enabled(self) == self.logger_level \notin {"ERROR", "CRITICAL", "FATAL"}

\* faulty variant: the verify_cert setter warns only when the value changes
setter_warnings_on_change(self, dry_run, verify_cert) ==
  IF ~warning_enabled(self) THEN <<>>
  ELSE (IF dry_run # None /\ dry_run[1] THEN <<DRY_RUN_WARNING>> ELSE <<>>)
       \o (IF verify_cert = Some(PyFalse) /\ self.verify_cert # Some(PyFalse)
           THEN <<INSECURE_WARNING>> ELSE <<>>)

\* what the dry_run and verify_cert setters log, in the order configure calls
\* them, on the object as it is when they run
setter_warnings(self, dry_run, verify_cert) ==
  IF ~warning_enabled(self) THEN <<>>
  ELSE (IF dry_run # None /\ dry_run[1] THEN <<DRY_RUN_WARNING>> ELSE <<>>)
       \o (IF verify_cert = Some(PyFalse) THEN <<INSECURE_WARNING>> ELSE <<>>)

\* configure: the object it leaves behind, how it ended and what it logged.
\* A statement that raises ends the call with the assignments made so far.
configure(self, key_file_path, dashboard_config_path, url, verify_cert, dry_run, log_level) ==
  LET kf == IF key_file_path # None THEN parse_keyfile(key_file_path[1]) ELSE Returned(None)
      s1 == IF key_file_path # None /\ ~IsRaised(kf) THEN apply_key_file(self, kf.returned) ELSE self
      dc == IF dashboard_config_path # None
            THEN parse_dashboard_config(dashboard_config_path[1]) ELSE Returned(None)
      s2 == IF dashboard_config_path # None /\ ~IsRaised(dc)
            THEN apply_dashboard_config(s1, dc.returned) ELSE s1
      s5 == set_verify_cert(set_dry_run(set_url(s2, url), dry_run), verify_cert)
      s6 == set_log_level(s5, log_level)
  IN  IF IsRaised(kf) THEN [self |-> self, outcome |-> kf, logged |-> <<>>]
      ELSE IF IsRaised(dc) THEN [self |-> s1, outcome |-> dc, logged |-> <<>>]
      ELSE IF log_level # None /\ log_level[1] \notin LevelNames
           THEN [self |-> s6, outcome |-> Raised(UNKNOWN_LEVEL),
                 logged |-> setter_warnings(s2, dry_run, verify_cert)]
      ELSE [self |-> recompute_configured(s6), outcome |-> Returned(None),
            logged |-> setter_warnings(s2, dry_run, verify_cert)]

\* lines 96-103: the object __init__ hands to its configure call (configured
\* is not yet an attribute; configure sets it before anything reads it)
Unconfigured(log_level) ==
  [email |-> None, key |-> None, url |-> None, product_token |-> None,
   folder_token |-> None, verify_cert |-> None, dry_run |-> None,
   log_level |-> log_level, logger_level |-> log_level, configured |-> FALSE]

\* LLAPI(url=url, verify_cert=verify_cert): every other argument at its default
LLAPI(url, verify_cert) ==
  configure(Unconfigured("WARNING"), None, None, url, verify_cert, Some(FALSE), Some("WARNING")).self

\* ------------------------------------------------------------------------
\* The request constructor.  A request descriptor is a dict: a function from
\* the keys it has to their values.
\* ------------------------------------------------------------------------

EMAIL == <<"e", "m", "a", "i", "l">>
POST_METHOD == <<"P", "O", "S", "T">>

IsTrue(flag) == flag = Some(TRUE)

\* faulty variant: an email entry of the caller is kept (setdefault)
with_email_setdefault(self, data_dict) ==
  LET d == IF data_dict = None THEN <<>> ELSE data_dict[1]
  IN  IF HasKey(d, EMAIL) THEN d ELSE Append(d, <<EMAIL, Str(self.email[1])>>)

\* faulty variant: the email is injected only into a mapping the call created itself
with_email_if_none(self, data_dict) ==
  IF data_dict = None THEN <<<<EMAIL, Str(self.email[1])>>>> ELSE data_dict[1]

\* faulty variant: the lists of the mapping are sorted in the mapping itself
with_email_sorting(self, data_dict) ==
  LET d == SetItem(IF data_dict = None THEN <<>> ELSE data_dict[1], EMAIL, Str(self.email[1]))
  IN  [i \in 1..Len(d) |-> <<d[i][1], sort_sequences(d[i][2])>>]

\* lines 169-172: the mapping the request is built from
with_email(self, data_dict) ==
  SetItem(IF data_dict = None THEN <<>> ELSE data_dict[1], EMAIL, Str(self.email[1]))

\* line 178: the signature header
signature_header(self, msg) == "X-Auth-Signature" :> _create_hmac(self.key[1], msg)

\* faulty variant: the query string follows the mapping's own order
place_params_unsorted(self, method, resource, data) ==
  IF upper(method) # POST_METHOD
  THEN "url" :> (self.url[1] \o resource \o <<"?">> \o urlencode(data))
  ELSE ("url" :> (self.url[1] \o resource)) @@ ("data" :> data)

\* lines 183-188: the parameters go into the query string, or into the body for POST
place_params(self, method, resource, data) ==
  IF upper(method) # POST_METHOD
  THEN "url" :> (self.url[1] \o resource \o <<"?">> \o urlencode(sorted_items(data)))
  ELSE ("url" :> (self.url[1] \o resource)) @@ ("data" :> data)

\* faulty variant: the message is attached whether or not dry-run is on
attach_hmac_msg_always(self, request, msg) == request @@ ("hmac_msg" :> msg)

\* lines 190-191
attach_hmac_msg(self, request, msg) ==
  IF IsTrue(self.dry_run) THEN request @@ ("hmac_msg" :> msg) ELSE request

\* the descriptor, and the caller's mapping as the call leaves it
_prepare_request(self, method, resource, data_dict) ==
  IF ~self.configured THEN Raised(NOT_CONFIGURED)
  ELSE LET data == with_email(self, data_dict)
           msg == _make_msg(method, resource, data)
           request == ("headers" :> signature_header(self, msg))
                      @@ ("method" :> upper(method))
                      @@ place_params(self, method, resource, data)
       IN  [returned |-> attach_hmac_msg(self, request, msg), data_dict |-> data]

\* ------------------------------------------------------------------------
\* The transport executor.  What the network does with a dispatched request
\* is the environment's choice: a response, or a requests exception.
\* ------------------------------------------------------------------------

\* Response.content is bytes
JSON_BODY == [bytes |-> "{\"error\": \"not found\"}"]
HTML_BODY == [bytes |-> "<html>Bad Gateway</html>"]
EMPTY_BODY == [bytes |-> ""]

Response(status_code, content) ==
  [kind |-> "response", status_code |-> status_code, content |-> content]

TransportFailure(class) == [kind |-> "exception", class |-> class]

\* Response.json(): the parsed body, or None when it raises ValueError
r_json(r) == IF r.content = JSON_BODY THEN Some([error |-> "not found"]) ELSE None

\* Response.raise_for_status() raises HTTPError for 4xx and 5xx
raises_for_status(r) == r.status_code >= 400 /\ r.status_code < 600

\* requests.exceptions: the classes an exception is an instance of
ExceptionClasses(class) ==
  CASE class = "ConnectTimeout" -> {"ConnectTimeout", "ConnectionError", "Timeout"}
    [] class = "ReadTimeout" -> {"ReadTimeout", "Timeout"}
    [] OTHER -> {class}

\* the keyword arguments requests.request accepts besides method, url and verify
RequestsKwargs ==
  {"params", "data", "headers", "cookies", "files", "auth", "timeout",
   "allow_redirects", "proxies", "hooks", "stream", "cert", "json"}

MISSING_KEY == "_do_api_call: Missing required key"
TYPE_ERROR == "TypeError: request() got an unexpected keyword argument"
REMOTE_ERROR == "LinuxLink server returned an error"
CONNECTION_ERROR == "Connection could not be made"
TIMED_OUT == "Connection attempt timed out"
JSON_ERROR == "_do_api_call: error parsing JSON response"

\* faulty variant: verify=bool(verify_cert), so that an unset verify_cert disables it
dispatch_falsy(self, method, url, kwargs) ==
  [method |-> method, url |-> url, kwargs |-> kwargs,
   verify |-> IF self.verify_cert \in {None, Some(PyFalse)} THEN Some(PyFalse)
              ELSE self.verify_cert,
   filter_insecure_warning |-> (self.verify_cert = Some(PyFalse))]

\* lines 210-215: what goes on the wire.  verify is False only for an explicit
\* False, and only then is the InsecureRequestWarning filtered for the call
dispatch(self, method, url, kwargs) ==
  [method |-> method, url |-> url, kwargs |-> kwargs,
   verify |-> IF self.verify_cert = Some(PyFalse) THEN Some(PyFalse) ELSE self.verify_cert,
   filter_insecure_warning |-> (self.verify_cert = Some(PyFalse))]

\* faulty variant: the error always carries the status code, never the body
interpret_status_only(json_response, server) ==
  IF server.kind = "exception"
  THEN IF "ConnectionError" \in ExceptionClasses(server.class) THEN Raised(CONNECTION_ERROR)
       ELSE IF "Timeout" \in ExceptionClasses(server.class) THEN Raised(TIMED_OUT)
       ELSE Raised(server.class)
  ELSE IF raises_for_status(server)
       THEN [raised |-> REMOTE_ERROR, detail |-> Some([status_code |-> server.status_code])]
  ELSE IF ~json_response THEN Returned(server.content)
  ELSE IF r_json(server) = None THEN Raised(JSON_ERROR)
  ELSE Returned(r_json(server)[1])

\* faulty variant: the body is parsed whether or not the caller asked for JSON
interpret_always_json(json_response, server) ==
  IF server.kind = "exception"
  THEN IF "ConnectionError" \in ExceptionClasses(server.class) THEN Raised(CONNECTION_ERROR)
       ELSE IF "Timeout" \in ExceptionClasses(server.class) THEN Raised(TIMED_OUT)
       ELSE Raised(server.class)
  ELSE IF raises_for_status(server)
       THEN [raised |-> REMOTE_ERROR,
             detail |-> IF r_json(server) # None THEN r_json(server)
                        ELSE Some([status_code |-> server.status_code])]
  ELSE IF r_json(server) = None THEN Raised(JSON_ERROR)
  ELSE Returned(r_json(server)[1])

\* lines 216-237: the response or exception, as the caller sees it; detail is
\* the value e the error message is formatted with, the parsed body or the
\* status code
interpret(json_response, server) ==
  IF server.kind = "exception"
  THEN IF "ConnectionError" \in ExceptionClasses(server.class) THEN Raised(CONNECTION_ERROR)
       ELSE IF "Timeout" \in ExceptionClasses(server.class) THEN Raised(TIMED_OUT)
       ELSE Raised(server.class)
  ELSE IF raises_for_status(server)
       THEN [raised |-> REMOTE_ERROR,
             detail |-> IF r_json(server) # None THEN r_json(server)
                        ELSE Some([status_code |-> server.status_code])]
  ELSE IF ~json_response THEN Returned(server.content)
  ELSE IF r_json(server) = None THEN Raised(JSON_ERROR)
  ELSE Returned(r_json(server)[1])

\* faulty variant: the dry-run return comes before the configured check
_do_api_call_dry_run_first(self, request_dict, json_response, server) ==
  IF IsTrue(self.dry_run) THEN [outcome |-> Returned(request_dict), sent |-> None]
  ELSE IF ~self.configured THEN [outcome |-> Raised(NOT_CONFIGURED_PROPERLY), sent |-> None]
  ELSE IF ~({"method", "url"} \subseteq DOMAIN request_dict)
       THEN [outcome |-> Raised(MISSING_KEY), sent |-> None]
  ELSE LET kwargs == [k \in DOMAIN request_dict \ {"method", "url"} |-> request_dict[k]]
       IN  IF ~(DOMAIN kwargs \subseteq RequestsKwargs)
           THEN [outcome |-> Raised(TYPE_ERROR), sent |-> None]
           ELSE [outcome |-> interpret(json_response, server),
                 sent |-> Some([method |-> request_dict["method"], url |-> request_dict["url"],
                                kwargs |-> kwargs, verify |-> self.verify_cert,
                                filter_insecure_warning |-> FALSE])]

\* how the call ends, and the request it put on the wire (None: nothing was sent)
_do_api_call(self, request_dict, json_response, server) ==
  IF ~self.configured THEN [outcome |-> Raised(NOT_CONFIGURED_PROPERLY), sent |-> None]
  ELSE IF IsTrue(self.dry_run) THEN [outcome |-> Returned(request_dict), sent |-> None]
  ELSE IF ~({"method", "url"} \subseteq DOMAIN request_dict)
       THEN [outcome |-> Raised(MISSING_KEY), sent |-> None]
  ELSE LET kwargs == [k \in DOMAIN request_dict \ {"method", "url"} |-> request_dict[k]]
       IN  IF ~(DOMAIN kwargs \subseteq RequestsKwargs)
           THEN [outcome |-> Raised(TYPE_ERROR), sent |-> None]
           ELSE [outcome |-> interpret(json_response, server),
                 sent |-> Some(dispatch(self, request_dict["method"], request_dict["url"], kwargs))]

\* ------------------------------------------------------------------------
\* State
\* ------------------------------------------------------------------------

VARIABLES
  llapi,      \* the shared LLAPI object (timesys.llapi)
  held,       \* the descriptor a caller got from _prepare_request and still holds
  call,       \* the last call made: its name and arguments
  result,     \* how that call ended: [returned |-> v] or [raised |-> e]
  request,    \* the descriptor that call built, None when it built none
  sent,       \* the HTTP request that call dispatched, None when it sent none
  logged,     \* the warnings that call logged, in order
  data_dict   \* the caller's parameter mapping as that call left it

vars == <<llapi, held, call, result, request, sent, logged, data_dict>>

\* ------------------------------------------------------------------------
\* The inputs calls are made with
\* ------------------------------------------------------------------------

GET_METHOD == <<"G", "E", "T">>
PUT_METHOD == <<"P", "U", "T">>
PATCH_METHOD == <<"P", "A", "T", "C", "H">>
DELETE_METHOD == <<"D", "E", "L", "E", "T", "E">>

\* _prepare_request is also called directly, with a method in lower case
PrepareMethods == {GET_METHOD, <<"p", "o", "s", "t">>}

HEARTBEAT == <<"/", "a", "p", "i", "/", "v", "1", "/", "h", "e", "a", "r", "t", "b", "e", "a", "t">>

Resources == {HEARTBEAT}

TAGS == <<"t", "a", "g", "s">>
NAME == <<"n", "a", "m", "e">>

\* a caller's mapping: out of key order, with an unsorted list, a text with a
\* space and an email entry of its own
CALLER_DICT ==
  << <<TAGS, List(<< <<"b">>, <<"a">> >>)>>,
     <<EMAIL, Str(<<"m", "@", "x", ".", "o", "r", "g">>)>>,
     <<NAME, Str(<<"x", " ", "y">>)>> >>

DataChoices == {None, Some(CALLER_DICT)}

Responses ==
  {Response(200, JSON_BODY), Response(200, HTML_BODY), Response(304, EMPTY_BODY),
   Response(404, JSON_BODY), Response(404, HTML_BODY),
   TransportFailure("ConnectionError"), TransportFailure("ConnectTimeout"),
   TransportFailure("ReadTimeout")}

\* a descriptor a caller wrote by hand, without a url
HANDMADE == "method" :> GET_METHOD

ArgNames == {"key_file_path", "dashboard_config_path", "url", "verify_cert", "dry_run", "log_level"}

Supplied(a) == {n \in ArgNames : a[n] # None}

Opt(S) == {None} \cup {Some(v) : v \in S}

\* configure calls that supply at most MaxArgs arguments, each from its set
ConfigureArgs(KF, DC, URL, VC, DR, LL) ==
  {a \in [key_file_path : Opt(KF), dashboard_config_path : Opt(DC), url : Opt(URL),
          verify_cert : Opt(VC), dry_run : Opt(DR), log_level : Opt(LL)] :
     Cardinality(Supplied(a)) <= MaxArgs}

\* every argument over its range (the default url and verify_cert=True come
\* from the constructor): two key files that parse and one that cannot be
\* read, two dashboard configs that parse and one without a product
AllConfigureArgs ==
  ConfigureArgs({KEY_ALICE, KEY_BOB, KEY_MISSING},
                {DASH_FULL, DASH_PRODUCT, DASH_NOPRODUCT},
                {OTHER_URL}, {PyFalse, CA_BUNDLE}, BOOLEAN, {"DEBUG", "VERBOSE"})

\* the arguments that bear on requests; the key file that fails lacks its
\* key and the one dashboard config cannot be read
RequestConfigureArgs ==
  ConfigureArgs({KEY_ALICE, KEY_BOB, KEY_NOKEY}, {DASH_MISSING},
                {DEFAULT_URL}, {PyTrue, PyFalse, CA_BUNDLE}, BOOLEAN, {})

\* ------------------------------------------------------------------------
\* The per-resource functions of timesys.vigiles, which check their
\* arguments, build a mapping and call a verb of the shared object
\* ------------------------------------------------------------------------

MANIFESTS == <<"/", "a", "p", "i", "/", "v", "1", "/", "v", "i", "g", "i", "l", "e", "s", "/", "m", "a", "n", "i", "f", "e", "s", "t", "s">>
REPORTS == <<"/", "a", "p", "i", "/", "v", "1", "/", "v", "i", "g", "i", "l", "e", "s", "/", "r", "e", "p", "o", "r", "t", "s">>
PRODUCTS == <<"/", "a", "p", "i", "/", "v", "1", "/", "v", "i", "g", "i", "l", "e", "s", "/", "p", "r", "o", "d", "u", "c", "t", "s">>
FOLDERS == <<"/", "a", "p", "i", "/", "v", "1", "/", "v", "i", "g", "i", "l", "e", "s", "/", "f", "o", "l", "d", "e", "r", "s">>
REPORTS_SUFFIX == <<"/", "r", "e", "p", "o", "r", "t", "s">>

SBOM_FORMAT == <<"s", "b", "o", "m", "_", "f", "o", "r", "m", "a", "t">>
CONFIRMED == <<"c", "o", "n", "f", "i", "r", "m", "e", "d">>
FILTERED == <<"f", "i", "l", "t", "e", "r", "e", "d">>
FORMAT == <<"f", "o", "r", "m", "a", "t">>
DESC == <<"d", "e", "s", "c">>
GROUP_TOKEN == <<"g", "r", "o", "u", "p", "_", "t", "o", "k", "e", "n">>

MANIFEST_TOKEN_REQUIRED == "manifest_token is required"
REPORT_TOKEN_REQUIRED == "report_token is required"
PRODUCT_NAME_REQUIRED == "product_name is required"
INVALID_FORMAT == "Invalid or missing 'format' arg. Acceptable values: csv, pdf, pdfsummary, xlsx"
ATTRIBUTE_ERROR == "AttributeError: 'LLAPI' object has no attribute"

valid_formats == <<<<"c", "s", "v">>, <<"p", "d", "f">>, <<"p", "d", "f", "s", "u", "m", "m", "a", "r", "y">>, <<"x", "l", "s", "x">>>>

\* the truth value of an optional str: None and "" are false
truthy(x) == x # None /\ x[1] # <<>>

\* str() of a bool, which is how urlencode renders a bool value
PyStr(b) == IF b THEN <<"T", "r", "u", "e">> ELSE <<"F", "a", "l", "s", "e">>

\* reading an attribute of the object: the attributes it has are those that
\* __init__ and configure assign
getattr(self, name) ==
  IF name \in DOMAIN self THEN Returned(self[name]) ELSE Raised(ATTRIBUTE_ERROR)

\* a function that ended before it called a verb
ended(outcome) == [outcome |-> outcome, request |-> None, sent |-> None, data_dict |-> None]

\* lines 269-287, a verb called by a function: how it ended, the descriptor it
\* built, the request it dispatched and the mapping as it left it
verb_call(self, method, resource, data, json, server) ==
  LET p == _prepare_request(self, method, resource, data)
      r == _do_api_call(self, p.returned, json, server)
  IN  IF IsRaised(p) THEN [outcome |-> p, request |-> None, sent |-> None, data_dict |-> data]
      ELSE [outcome |-> r.outcome, request |-> Some(p.returned), sent |-> r.sent,
            data_dict |-> Some(p.data_dict)]

\* manifests.py lines 80-88
get_manifest_info(self, manifest_token, sbom_format, server) ==
  IF ~truthy(manifest_token) THEN ended(Raised(MANIFEST_TOKEN_REQUIRED))
  ELSE LET data == IF sbom_format # None THEN << <<SBOM_FORMAT, Str(sbom_format[1])>> >> ELSE <<>>
           resource == MANIFESTS \o <<"/">> \o manifest_token[1]
       IN  verb_call(self, GET_METHOD, resource, Some(data), TRUE, server)

\* manifests.py lines 309-314
delete_manifest(self, manifest_token, confirmed, server) ==
  IF ~truthy(manifest_token) THEN ended(Raised(MANIFEST_TOKEN_REQUIRED))
  ELSE LET data == << <<CONFIRMED, Str(PyStr(confirmed))>> >>
           resource == MANIFESTS \o <<"/">> \o manifest_token[1]
       IN  verb_call(self, DELETE_METHOD, resource, Some(data), TRUE, server)

\* manifests.py lines 333-337
get_report_tokens(self, manifest_token, server) ==
  IF ~truthy(manifest_token) THEN ended(Raised(MANIFEST_TOKEN_REQUIRED))
  ELSE verb_call(self, GET_METHOD, MANIFESTS \o <<"/">> \o manifest_token[1] \o REPORTS_SUFFIX,
                 None, TRUE, server)

\* products.py lines 43-52
create_product(self, product_name, product_description, server) ==
  IF ~truthy(product_name) THEN ended(Raised(PRODUCT_NAME_REQUIRED))
  ELSE LET named == << <<NAME, Str(product_name[1])>> >>
           data == IF truthy(product_description)
                   THEN SetItem(named, DESC, Str(product_description[1])) ELSE named
       IN  verb_call(self, POST_METHOD, PRODUCTS, Some(data), TRUE, server)

\* faulty variant: the format is not checked
download_report_any_format(self, report_token, format, filter_results, server) ==
  IF ~truthy(report_token) THEN ended(Raised(REPORT_TOKEN_REQUIRED))
  ELSE LET data == << <<FILTERED, Str(PyStr(filter_results))>>,
                      <<FORMAT, Str(IF format = None THEN <<"N", "o", "n", "e">> ELSE format[1])>> >>
           resource == REPORTS \o <<"/">> \o report_token[1]
       IN  verb_call(self, GET_METHOD, resource, Some(data), FALSE, server)

\* reports.py lines 30-46
download_report(self, report_token, format, filter_results, server) ==
  IF ~truthy(report_token) THEN ended(Raised(REPORT_TOKEN_REQUIRED))
  ELSE IF format = None \/ ~(\E i \in 1..Len(valid_formats) : valid_formats[i] = format[1])
       THEN ended(Raised(INVALID_FORMAT))
  ELSE LET data == << <<FILTERED, Str(PyStr(filter_results))>>, <<FORMAT, Str(format[1])>> >>
           resource == REPORTS \o <<"/">> \o report_token[1]
       IN  verb_call(self, GET_METHOD, resource, Some(data), FALSE, server)

\* folders.py lines 22-28: the attribute is read only when no token was passed
get_folders(self, group_token, server) ==
  LET found == IF truthy(group_token) THEN Returned(group_token) ELSE getattr(self, "group_token")
  IN  IF IsRaised(found) THEN ended(found)
      ELSE LET data == IF truthy(found.returned)
                       THEN << <<GROUP_TOKEN, Str(found.returned[1])>> >> ELSE <<>>
           IN  verb_call(self, GET_METHOD, FOLDERS, Some(data), TRUE, server)

\* ------------------------------------------------------------------------
\* Actions
\* ------------------------------------------------------------------------

\* the module creates the shared object with LLAPI(); a program may also
\* build its own, without a url or leaving verify_cert unset
Init ==
  /\ llapi \in {LLAPI(u, v) : u \in {Some(DEFAULT_URL), None}, v \in {Some(PyTrue), None}}
  /\ held = None
  /\ call = [op |-> "__init__"]
  /\ result = Returned(None)
  /\ request = None
  /\ sent = None
  /\ logged = <<>>
  /\ data_dict = None

Configure(a) ==
  \E r \in {configure(llapi, a.key_file_path, a.dashboard_config_path, a.url,
                    a.verify_cert, a.dry_run, a.log_level)} :
      /\ llapi' = r.self
      /\ call' = [op |-> "configure", supplied |-> Supplied(a), verify_cert |-> a.verify_cert]
      /\ result' = r.outcome
      /\ logged' = r.logged
      /\ request' = None
      /\ sent' = None
      /\ data_dict' = None
      /\ UNCHANGED held

Prepare(method, resource, data) ==
  \E r \in {_prepare_request(llapi, method, resource, data)} :
      /\ call' = [op |-> "_prepare_request", method |-> method, resource |-> resource,
                  data_dict |-> data]
      /\ result' = IF IsRaised(r) THEN r ELSE Returned(r.returned)
      /\ request' = IF IsRaised(r) THEN None ELSE Some(r.returned)
      /\ held' = IF IsRaised(r) THEN held ELSE Some(r.returned)
      /\ data_dict' = IF IsRaised(r) THEN data ELSE Some(r.data_dict)
      /\ sent' = None
      /\ logged' = <<>>
      /\ UNCHANGED llapi

\* the network answers only a request that was dispatched
Answer(r, server) == IF r.sent # None THEN Some(server) ELSE None

\* _do_api_call on the descriptor in hand, or on a hand-written one; the
\* caller lets go of the descriptor afterwards
Execute(request_dict, json, server) ==
  \E r \in {_do_api_call(llapi, request_dict, json, server)} :
      /\ r.sent = None => server = CHOOSE x \in Responses : TRUE
      /\ call' = [op |-> "_do_api_call", request_dict |-> request_dict, json |-> json,
                  server |-> Answer(r, server)]
      /\ result' = r.outcome
      /\ sent' = r.sent
      /\ held' = None
      /\ request' = None
      /\ data_dict' = None
      /\ logged' = <<>>
      /\ UNCHANGED llapi

\* lines 269-287, one of the five verbs: _prepare_request, then _do_api_call
\* on the descriptor it returned.  A caller making a verb call holds no
\* descriptor of its own.
Verb(method) ==
  \E resource \in Resources, data \in DataChoices :
    \E p \in {_prepare_request(llapi, method, resource, data)} :
      \E json \in BOOLEAN, server \in Responses :
        \E r \in {IF IsRaised(p) THEN [outcome |-> p, sent |-> None]
                  ELSE _do_api_call(llapi, p.returned, json, server)} :
          /\ r.sent = None => server = CHOOSE x \in Responses : TRUE
          /\ call' = [op |-> Join(method), method |-> method, resource |-> resource,
                      data_dict |-> data, json |-> json, server |-> Answer(r, server)]
          /\ result' = r.outcome
          /\ request' = IF IsRaised(p) THEN None ELSE Some(p.returned)
          /\ sent' = r.sent
          /\ data_dict' = IF IsRaised(p) THEN data ELSE Some(p.data_dict)
          /\ held' = None
          /\ logged' = <<>>
          /\ UNCHANGED llapi

DELETE == Verb(DELETE_METHOD)

GET == Verb(GET_METHOD)

PATCH == Verb(PATCH_METHOD)

POST == Verb(POST_METHOD)

PUT == Verb(PUT_METHOD)

InHand == (IF held # None THEN {held[1]} ELSE {}) \cup {HANDMADE}

Requests ==
  \/ \E m \in PrepareMethods, r \in Resources, d \in DataChoices : Prepare(m, r, d)
  \/ \E d \in InHand, json \in BOOLEAN, server \in Responses : Execute(d, json, server)
  \/ DELETE
  \/ GET
  \/ PATCH
  \/ POST
  \/ PUT

\* requests, between configure calls that bear on them
Next ==
  \/ \E a \in RequestConfigureArgs : Configure(a)
  \/ Requests

Spec == Init /\ [][Next]_vars

\* the same calls on an object constructed with the url of a test server
InitExample ==
  /\ llapi = LLAPI(Some(OTHER_URL), Some(PyTrue))
  /\ held = None
  /\ call = [op |-> "__init__"]
  /\ result = Returned(None)
  /\ request = None
  /\ sent = None
  /\ logged = <<>>
  /\ data_dict = None

\* the configure calls of the example: a key file, dry_run or both
ExampleConfigureArgs == ConfigureArgs({KEY_ALICE, KEY_BOB}, {}, {}, {}, BOOLEAN, {})

NextExample ==
  \/ \E a \in ExampleConfigureArgs : Configure(a)
  \/ Requests

SpecExample == InitExample /\ [][NextExample]_vars

\* requests between configure calls that set verify_cert or move the level of
\* the logger above or below WARNING, with a key file or one that cannot be read
LoggingConfigureArgs ==
  ConfigureArgs({KEY_ALICE, KEY_MISSING}, {}, {}, {PyFalse, PyTrue}, {}, {"ERROR", "INFO"})

NextLogging ==
  \/ \E a \in LoggingConfigureArgs : Configure(a)
  \/ Requests

SpecLogging == Init /\ [][NextLogging]_vars

\* the per-resource functions, called with a token or a name that is
\* missing, empty or present
ResourceInputs ==
  LET Required(t) == {None, Some(<<>>), Some(t)}
  IN  [manifest_token |-> Required(<<"M", "1">>),
       report_token |-> Required(<<"R", "1">>),
       group_token |-> Opt({<<"G", "1">>}),
       product_name |-> Required(<<"w", "i", "d", "g", "e", "t">>),
       product_description |-> Opt({<<"a", " ", "w", "i", "d", "g", "e", "t">>}),
       sbom_format |-> Opt({<<"s", "p", "d", "x">>}),
       format |-> Opt({<<"c", "s", "v">>, <<"t", "x", "t">>})]

\* how a function call ends: as Verb ends, with the arguments of the function
Finish(name, args, r, server) ==
  /\ r.sent = None => server = CHOOSE x \in Responses : TRUE
  /\ call' = [op |-> name, args |-> args, server |-> Answer(r, server)]
  /\ result' = r.outcome
  /\ request' = r.request
  /\ sent' = r.sent
  /\ data_dict' = r.data_dict
  /\ held' = None
  /\ logged' = <<>>
  /\ UNCHANGED llapi

GetManifestInfo ==
  \E t \in ResourceInputs.manifest_token, f \in ResourceInputs.sbom_format, server \in Responses :
    \E r \in {get_manifest_info(llapi, t, f, server)} :
      Finish("get_manifest_info", [manifest_token |-> t, sbom_format |-> f], r, server)

DeleteManifest ==
  \E t \in ResourceInputs.manifest_token, c \in BOOLEAN, server \in Responses :
    \E r \in {delete_manifest(llapi, t, c, server)} :
      Finish("delete_manifest", [manifest_token |-> t, confirmed |-> c], r, server)

GetReportTokens ==
  \E t \in ResourceInputs.manifest_token, server \in Responses :
    \E r \in {get_report_tokens(llapi, t, server)} :
      Finish("get_report_tokens", [manifest_token |-> t], r, server)

CreateProduct ==
  \E n \in ResourceInputs.product_name, d \in ResourceInputs.product_description, server \in Responses :
    \E r \in {create_product(llapi, n, d, server)} :
      Finish("create_product", [product_name |-> n, product_description |-> d], r, server)

DownloadReport ==
  \E t \in ResourceInputs.report_token, f \in ResourceInputs.format, server \in Responses :
    \E r \in {download_report(llapi, t, f, FALSE, server)} :
      Finish("download_report", [report_token |-> t, format |-> f, filter_results |-> FALSE],
             r, server)

GetFolders ==
  \E g \in ResourceInputs.group_token, server \in Responses :
    \E r \in {get_folders(llapi, g, server)} :
      Finish("get_folders", [group_token |-> g], r, server)

\* the configure calls before the functions: a key file, dry_run or both
ResourceConfigureArgs == ConfigureArgs({KEY_ALICE}, {}, {}, {}, BOOLEAN, {})

NextResources ==
  \/ \E a \in ResourceConfigureArgs : Configure(a)
  \/ GetManifestInfo
  \/ DeleteManifest
  \/ GetReportTokens
  \/ CreateProduct
  \/ DownloadReport
  \/ GetFolders

SpecResources == Init /\ [][NextResources]_vars

\* configure calls alone, every argument over its whole range
NextConfigure == \E a \in AllConfigureArgs : Configure(a)

SpecConfigure == Init /\ [][NextConfigure]_vars

\* ------------------------------------------------------------------------
\* Properties
\* ------------------------------------------------------------------------

\* email, key and url are all present
Complete(self) == self.email # None /\ self.key # None /\ self.url # None

VerbOps == {"DELETE", "GET", "PATCH", "POST", "PUT"}

RequestOps == VerbOps \cup {"_prepare_request", "_do_api_call"}

\* the last call was stopped by logging.setLevel rejecting the level name
LevelRejected(r) == r = Raised(UNKNOWN_LEVEL)

\* C1: in every state reachable by configure calls, those that fail with a
\* key file or dashboard config error included, configured is true exactly
\* when email, key and url are all present.
C1_ConfiguredIffComplete == ~LevelRejected(result) => (llapi.configured <=> Complete(llapi))

\* C4: readiness is false while one of email, key and url is missing, is true
\* after the configure call that supplies the last missing one, and once true
\* stays true across every later configure call.
C4_ReadinessLifecycle ==
  [][/\ ~Complete(llapi') => ~llapi'.configured
     /\ (~Complete(llapi) /\ Complete(llapi') /\ ~LevelRejected(result')) => llapi'.configured
     /\ llapi.configured => llapi'.configured]_vars

\* C5: a configure call leaves unchanged every stored field whose argument it
\* was not given: email and key without a key file, the product and folder
\* tokens without a dashboard config, and url, verify_cert, dry_run and
\* log_level without the argument of that name.
C5_OmittedFieldsUnchanged ==
  [][call'.op = "configure" =>
       /\ "key_file_path" \notin call'.supplied =>
            (llapi'.email = llapi.email /\ llapi'.key = llapi.key)
       /\ "dashboard_config_path" \notin call'.supplied =>
            (llapi'.product_token = llapi.product_token
             /\ llapi'.folder_token = llapi.folder_token)
       /\ "url" \notin call'.supplied => llapi'.url = llapi.url
       /\ "verify_cert" \notin call'.supplied => llapi'.verify_cert = llapi.verify_cert
       /\ "dry_run" \notin call'.supplied => llapi'.dry_run = llapi.dry_run
       /\ "log_level" \notin call'.supplied => llapi'.log_level = llapi.log_level]_vars

\* a call that supplied only dry_run and log_level, on an object that holds
\* credentials, a url, both tokens and a CA bundle
C5_Witness ==
  /\ call.op = "configure"
  /\ call.supplied = {"dry_run", "log_level"}
  /\ llapi.dry_run = Some(TRUE)
  /\ llapi.log_level = "DEBUG"
  /\ llapi.email = Some(EMAIL_BOB)
  /\ llapi.url = Some(OTHER_URL)
  /\ llapi.folder_token = Some(FOLDER_1)
  /\ llapi.verify_cert = Some(CA_BUNDLE)

\* C2: on an object that is not configured every request call raises the
\* not-configured error (_prepare_request and the five verbs with one message,
\* _do_api_call with the other), builds no descriptor and dispatches nothing,
\* whatever its arguments and the dry-run flag.
C2_UnconfiguredCallsFail ==
  (call.op \in RequestOps /\ ~llapi.configured) =>
    /\ result = Raised(IF call.op = "_do_api_call" THEN NOT_CONFIGURED_PROPERLY
                       ELSE NOT_CONFIGURED)
    /\ request = None
    /\ sent = None

\* a verb called with a mapping while dry-run is on and email, key and url are
\* all stored, on an object a failed configure call left unconfigured
C2_Witness ==
  /\ call.op = "POST"
  /\ call.data_dict # None
  /\ ~llapi.configured
  /\ Complete(llapi)
  /\ IsTrue(llapi.dry_run)

\* a descriptor _prepare_request built, as opposed to a hand-written one
Prepared(d) == "headers" \in DOMAIN d

\* the descriptor carries the bytes its signature was computed over
CarriesSignedMessage(d, self) ==
  /\ "hmac_msg" \in DOMAIN d
  /\ d["headers"]["X-Auth-Signature"] = _create_hmac(self.key[1], d["hmac_msg"])

\* C3 as stated: with dry-run on and the object configured, _do_api_call sends
\* nothing and returns the descriptor it was given, and that descriptor
\* carries hmac_msg, the bytes that were signed.
C3_DryRunEchoesWithMessage ==
  (call.op = "_do_api_call" /\ Prepared(call.request_dict)
     /\ llapi.configured /\ IsTrue(llapi.dry_run)) =>
    /\ sent = None
    /\ result = Returned(call.request_dict)
    /\ CarriesSignedMessage(call.request_dict, llapi)

\* C3 amended: with dry-run on and the object configured, _do_api_call sends
\* nothing and returns the descriptor it was given unchanged; _prepare_request
\* attaches hmac_msg, the bytes that were signed, exactly when dry-run is on as
\* it builds the descriptor; so a verb call under dry-run returns a descriptor
\* that carries it.
C3_DryRunEchoes ==
  /\ (call.op = "_do_api_call" /\ llapi.configured /\ IsTrue(llapi.dry_run)) =>
       (sent = None /\ result = Returned(call.request_dict))
  /\ request # None =>
       IF IsTrue(llapi.dry_run) THEN CarriesSignedMessage(request[1], llapi)
       ELSE "hmac_msg" \notin DOMAIN request[1]
  /\ (call.op \in VerbOps /\ llapi.configured /\ IsTrue(llapi.dry_run)) =>
       /\ sent = None
       /\ request # None
       /\ result = Returned(request[1])

\* _do_api_call under dry-run on a descriptor that was built before dry-run
\* was switched on: it comes back as given, without hmac_msg
C3_Witness ==
  /\ call.op = "_do_api_call"
  /\ Prepared(call.request_dict)
  /\ "hmac_msg" \notin DOMAIN call.request_dict
  /\ llapi.configured
  /\ IsTrue(llapi.dry_run)
  /\ result = Returned(call.request_dict)

\* the mapping the caller passed, {} when it passed none
CallerDict == IF call.data_dict = None THEN <<>> ELSE call.data_dict[1]

\* the caller's entries other than email, and the email entry e
Injected(d, e) ==
  LET NotEmail(item) == item[1] # EMAIL
  IN  Append(SelectSeq(d, NotEmail), <<EMAIL, Str(e)>>)

\* C6: _prepare_request on a configured object returns a descriptor, and its
\* X-Auth-Signature header is the signature, under the stored key, of the
\* message built from the method, the resource and the caller's parameters
\* with the stored email injected.
C6_SignatureOfMessage ==
  (call.op \in VerbOps \cup {"_prepare_request"} /\ llapi.configured) =>
    /\ request # None
    /\ DOMAIN request[1]["headers"] = {"X-Auth-Signature"}
    /\ request[1]["headers"]["X-Auth-Signature"] =
         _create_hmac(llapi.key[1],
                      _make_msg(call.method, call.resource, Injected(CallerDict, llapi.email[1])))

\* a descriptor built under the second key file from a mapping that had an
\* email entry of its own
C6_Witness ==
  /\ call.op = "_prepare_request"
  /\ request # None
  /\ llapi.key = Some(Encode(SECRET_BOB))
  /\ HasKey(CallerDict, EMAIL)
  /\ Get(CallerDict, EMAIL) # Str(EMAIL_BOB)

\* the text before the first c (all of it when there is none), and after it
RECURSIVE Before(_, _)
Before(t, c) == IF t = <<>> \/ t[1] = c THEN <<>> ELSE <<t[1]>> \o Before(Tail(t), c)

After(t, c) == SubSeq(t, Len(Before(t, c)) + 2, Len(t))

Contains(t, c) == \E i \in 1..Len(t) : t[i] = c

RECURSIVE SplitOn(_, _)
SplitOn(t, c) ==
  IF ~Contains(t, c) THEN <<t>> ELSE <<Before(t, c)>> \o SplitOn(After(t, c), c)

\* the query string as a server reads it: the values of parameter k, decoded
QueryValues(url, k) ==
  LET pairs == SplitOn(After(url, "?"), "&")
  IN  {unquote_plus(After(pairs[i], "=")) :
         i \in {j \in 1..Len(pairs) : unquote_plus(Before(pairs[j], "=")) = k}}

\* C7: every descriptor _prepare_request builds carries the stored email as
\* its one email parameter: in the query string when the method is not POST,
\* in the body when it is, also when the caller's mapping had an email entry
\* with another value.
C7_EmailParameter ==
  request # None =>
    IF request[1]["method"] # POST_METHOD
    THEN QueryValues(request[1]["url"], EMAIL) = {llapi.email[1]}
    ELSE /\ HasKey(request[1]["data"], EMAIL)
         /\ Get(request[1]["data"], EMAIL) = Str(llapi.email[1])

\* a GET built from a mapping that had another email, on an object whose last
\* key file was the second one
C7_Witness ==
  /\ call.op = "GET"
  /\ request # None
  /\ HasKey(CallerDict, EMAIL)
  /\ Get(CallerDict, EMAIL) # Str(EMAIL_BOB)
  /\ llapi.email = Some(EMAIL_BOB)

\* the keys of the items ascend strictly
KeysAscend(items) == \A i \in 1..(Len(items) - 1) : StrLess(items[i][1], items[i + 1][1])

\* the arrangements of the items of mapping d
Arrangements(d) ==
  {[i \in 1..Len(d) |-> d[f[i]]] :
     f \in {g \in [1..Len(d) -> 1..Len(d)] : \A i, j \in 1..Len(d) : g[i] = g[j] => i = j}}

\* C8: for a method other than POST the url of the descriptor is the base url,
\* the resource, "?" and the parameters serialized with their keys ascending,
\* and there is no body; for POST the url is the base url and the resource
\* with no query string and the body is the parameter mapping.
C8_ParameterPlacement ==
  request # None =>
    LET d == request[1]
        base == llapi.url[1] \o call.resource
    IN  IF d["method"] # POST_METHOD
        THEN /\ "data" \notin DOMAIN d
             /\ \E q \in Arrangements(data_dict[1]) :
                  KeysAscend(q) /\ d["url"] = base \o <<"?">> \o urlencode(q)
        ELSE /\ d["url"] = base
             /\ ~Contains(d["url"], "?")
             /\ "data" \in DOMAIN d
             /\ d["data"] = data_dict[1]

\* a PUT built from the caller's mapping, whose keys are not in order
C8_Witness ==
  /\ call.op = "PUT"
  /\ request # None
  /\ Len(data_dict[1]) = 3
  /\ ~KeysAscend(data_dict[1])
  /\ sent # None

\* C9: a dispatched request has verification off exactly when the stored
\* verify_cert is False; unset, True and a CA bundle path are passed on as they
\* are, which leaves verification on; and a configure call without verify_cert
\* leaves the stored value as it was.
C9_VerifyPolicy ==
  [][/\ sent' # None =>
          /\ (sent'[1].verify = Some(PyFalse)) <=> (llapi'.verify_cert = Some(PyFalse))
          /\ llapi'.verify_cert \in {None, Some(PyTrue), Some(CA_BUNDLE)} =>
               sent'[1].verify = llapi'.verify_cert
     /\ (call'.op = "configure" /\ "verify_cert" \notin call'.supplied) =>
          llapi'.verify_cert = llapi.verify_cert]_vars

\* a request dispatched while verify_cert has never been set
C9_Witness ==
  /\ sent # None
  /\ llapi.verify_cert = None
  /\ sent[1].verify = None

\* C10: the canonical message does not depend on the order in which the keys
\* were inserted: every arrangement of the mapping of a call gives the same
\* message for the method and the resource of the call.
C10_OrderInvariant ==
  (call.op \in VerbOps \cup {"_prepare_request"} /\ data_dict # None) =>
    \A q \in Arrangements(data_dict[1]) :
      _make_msg(call.method, call.resource, q)
        = _make_msg(call.method, call.resource, data_dict[1])

\* a call whose mapping has three keys, which the caller did not insert in
\* key order
C10_Witness ==
  /\ call.op = "_prepare_request"
  /\ request # None
  /\ Len(data_dict[1]) = 3
  /\ ~KeysAscend(data_dict[1])

\* the parameters part of the canonical message of the call: what follows the
\* method and the resource
MessageArgs ==
  LET msg == _make_msg(call.method, call.resource, data_dict[1]).bytes
  IN  SubSeq(msg, Len(call.method) + Len(call.resource) + 1, Len(msg))

\* the values the key=value pairs of text t give key k, in the order they appear
PairValues(t, k) ==
  LET pairs == SplitOn(t, "&")
      ForKey(p) == Before(p, "=") = k
      mine == SelectSeq(pairs, ForKey)
  IN  [i \in 1..Len(mine) |-> After(mine[i], "=")]

Ascending(ts) == \A i \in 1..(Len(ts) - 1) : ~StrLess(ts[i + 1], ts[i])

Occurrences(ts, x) == Cardinality({i \in 1..Len(ts) : ts[i] = x})

SameElements(ts, us) ==
  /\ Len(ts) = Len(us)
  /\ \A i \in 1..Len(ts) : Occurrences(ts, ts[i]) = Occurrences(us, ts[i])

\* C11: in the canonical message a parameter whose value is a list gives one
\* key=value pair per element, the elements ascending whatever order the
\* caller gave them in, and a parameter whose value is a str gives one pair
\* with the str as it is, neither split nor reordered.
C11_SequencesSorted ==
  (call.op \in VerbOps \cup {"_prepare_request"} /\ data_dict # None) =>
    \A i \in 1..Len(data_dict[1]) :
      LET k == data_dict[1][i][1]
          v == data_dict[1][i][2]
          got == PairValues(MessageArgs, k)
      IN  IF v.seq
          THEN Ascending(got) /\ SameElements(got, v.items)
          ELSE got = v.items

\* a call whose mapping has a list given in descending order and a str with
\* a space, whose characters are not in order either
C11_Witness ==
  /\ call.op = "GET"
  /\ request # None
  /\ HasKey(data_dict[1], TAGS)
  /\ Get(data_dict[1], TAGS).seq
  /\ ~Ascending(Get(data_dict[1], TAGS).items)
  /\ Get(data_dict[1], NAME) = Str(<<"x", " ", "y">>)
  /\ PairValues(MessageArgs, TAGS) = << <<"a">>, <<"b">> >>

\* a GET on the heartbeat resource with no parameters, on an object holding
\* the email "a@b.com", the key "secret" and the url "https://example.test"
ExampleCall ==
  /\ call.op = "GET"
  /\ call.resource = HEARTBEAT
  /\ call.data_dict = None
  /\ llapi.configured
  /\ Join(llapi.email[1]) = "a@b.com"
  /\ Join(llapi.key[1].bytes) = "secret"
  /\ Join(llapi.url[1]) = "https://example.test"

\* the query string of the descriptor has the pair p
QueryHas(p) ==
  LET pairs == SplitOn(After(request[1]["url"], "?"), "&")
  IN  \E i \in 1..Len(pairs) : Join(pairs[i]) = p

\* the descriptor is signed, under the key "secret", over the message m
SignedOver(m) ==
  LET signed == request[1]["headers"]["X-Auth-Signature"].b64.hmac_sha256
  IN  Join(signed[1].bytes) = "secret" /\ Join(signed[2].bytes) = m

\* C12 as stated: the example call gives a descriptor whose query string has
\* email=a%40b.com and whose signature is computed over the message
\* GET/api/v1/heartbeatemail=a%40b.com, the email percent-encoded.
C12_SignsEncodedEmail ==
  ExampleCall =>
    /\ request # None
    /\ QueryHas("email=a%40b.com")
    /\ SignedOver("GET/api/v1/heartbeatemail=a%40b.com")

\* C12: the example call gives a descriptor whose query string has
\* email=a%40b.com and whose signature is computed over the message
\* GET/api/v1/heartbeatemail=a@b.com: the email is percent-encoded in the
\* query string and percent-decoded in the message that is signed.
C12_SignsDecodedEmail ==
  ExampleCall =>
    /\ request # None
    /\ QueryHas("email=a%40b.com")
    /\ SignedOver("GET/api/v1/heartbeatemail=a@b.com")

\* the example call, dispatched to the test server
C12_Witness ==
  /\ ExampleCall
  /\ request # None
  /\ sent # None
  /\ Join(sent[1].url) = "https://example.test/api/v1/heartbeat?email=a%40b.com"

\* the call dispatched a request and the server answered it with a response
Answered ==
  /\ call.op \in VerbOps \cup {"_do_api_call"}
  /\ sent # None
  /\ call.server[1].kind = "response"

Status == call.server[1].status_code

Body == call.server[1].content

\* the call failed with the remote error, which carries the parsed body when
\* the body is JSON and the status code when it is not
FailedWithRemoteError ==
  /\ IsRaised(result)
  /\ result.raised = REMOTE_ERROR
  /\ result.detail = IF Body = JSON_BODY THEN Some([error |-> "not found"]) ELSE Some([status_code |-> Status])

\* C13 as stated: whenever the server answers a dispatched request with a
\* status outside 200-299, the call fails with the remote error, carrying the
\* parsed JSON body or else the status code, whatever the json flag.
C13_Non2xxFails ==
  (Answered /\ ~(Status >= 200 /\ Status < 300)) => FailedWithRemoteError

\* C13: the call fails with the remote error, carrying the parsed JSON body or
\* else the status code, whatever the json flag, exactly when the status of
\* the answer is a 4xx or a 5xx; an answer with any other status, 304 for one,
\* is handled as a success.
C13_ErrorStatusFails ==
  Answered =>
    IF Status >= 400 /\ Status < 600
    THEN FailedWithRemoteError
    ELSE ~IsRaised(result) \/ result.raised # REMOTE_ERROR

\* a 404 with an HTML body, on a call that did not ask for JSON
C13_Witness ==
  /\ Answered
  /\ Status = 404
  /\ Body = HTML_BODY
  /\ ~call.json
  /\ result = [raised |-> REMOTE_ERROR, detail |-> Some([status_code |-> 404])]

\* C14: on a 2xx answer, a call that asks for JSON returns the parsed body or
\* fails with the JSON parsing error when the body does not parse, and a call
\* that does not ask for JSON returns the bytes of the body as they are and
\* never fails with the parsing error, also when the body is not JSON.
C14_SuccessBody ==
  (Answered /\ Status >= 200 /\ Status < 300) =>
    IF call.json
    THEN IF Body = JSON_BODY THEN result = Returned([error |-> "not found"])
         ELSE result = Raised(JSON_ERROR)
    ELSE result = Returned(Body)

\* a 200 with an HTML body, returned as it is to a call that did not ask for JSON
C14_Witness ==
  /\ Answered
  /\ Status = 200
  /\ Body = HTML_BODY
  /\ ~call.json
  /\ result = Returned(HTML_BODY)

\* the call dispatched a request and the transport raised the exception class
Failed(class) ==
  /\ call.op \in VerbOps \cup {"_do_api_call"}
  /\ sent # None
  /\ call.server[1] = TransportFailure(class)

\* C15: a request that runs out of time, connecting or reading, fails with
\* the timeout error, a request that could not reach the server for another
\* reason fails with the connection error, and neither is reported as the
\* other.
C15_TransportErrorKinds ==
  /\ (Failed("ConnectTimeout") \/ Failed("ReadTimeout")) => result = Raised(TIMED_OUT)
  /\ Failed("ConnectionError") => result = Raised(CONNECTION_ERROR)

\* how many of the warnings a call logged are the insecure-requests warning
InsecureWarnings(log) == Cardinality({i \in 1..Len(log) : log[i] = INSECURE_WARNING})

\* C16 as stated: a configure call logs the insecure-requests warning once
\* when it supplied verify_cert=False and not at all otherwise, and a request
\* call logs none, so that the warnings logged number the configure calls that
\* supplied verify_cert=False.
C16_OneWarningPerSupply ==
  /\ call.op = "configure" =>
       InsecureWarnings(logged) = IF call.verify_cert = Some(PyFalse) THEN 1 ELSE 0
  /\ call.op \in RequestOps => InsecureWarnings(logged) = 0

\* the call raised in parse_keyfile or parse_dashboard_config
FileRejected(r) ==
  IsRaised(r) /\ r.raised \in {UNREADABLE_KEYFILE, INVALID_KEYFILE,
                               UNREADABLE_DASHBOARD, INVALID_DASHBOARD}

\* C16: a configure call logs the insecure-requests warning once when it
\* supplied verify_cert=False, did not raise on its key file or dashboard
\* config before the assignment and found the logger letting warnings
\* through (its level at WARNING or below), also when the value was False
\* already, and not at all otherwise; a request call logs none.
C16_OneWarningPerAssignment ==
  [][/\ call'.op = "configure" =>
          InsecureWarnings(logged') =
            IF /\ call'.verify_cert = Some(PyFalse)
               /\ ~FileRejected(result')
               /\ llapi.logger_level \in {"WARNING", "WARN", "INFO", "DEBUG", "NOTSET"}
            THEN 1 ELSE 0
     /\ call'.op \in RequestOps => InsecureWarnings(logged') = 0]_vars

\* a call that supplied verify_cert=False and a level above WARNING at once:
\* the warning is logged before the level takes effect
C16_Witness ==
  /\ call.op = "configure"
  /\ call.supplied = {"verify_cert", "log_level"}
  /\ call.verify_cert = Some(PyFalse)
  /\ llapi.logger_level = "ERROR"
  /\ logged = <<INSECURE_WARNING>>

\* the required argument of the function called is missing or empty, or the
\* format of download_report is none of csv, pdf, pdfsummary and xlsx
Absent(x) == x = None \/ x = Some(<<>>)

MissingArgument ==
  \/ /\ call.op \in {"get_manifest_info", "delete_manifest", "get_report_tokens"}
     /\ Absent(call.args.manifest_token)
  \/ call.op = "create_product" /\ Absent(call.args.product_name)
  \/ /\ call.op = "download_report"
     /\ \/ Absent(call.args.report_token)
        \/ call.args.format \notin {Some(<<"c", "s", "v">>), Some(<<"p", "d", "f">>),
                                    Some(<<"p", "d", "f", "s", "u", "m", "m", "a", "r", "y">>),
                                    Some(<<"x", "l", "s", "x">>)}

ValidationErrors ==
  {MANIFEST_TOKEN_REQUIRED, REPORT_TOKEN_REQUIRED, PRODUCT_NAME_REQUIRED, INVALID_FORMAT}

\* C17: a per-resource function called without its required argument, or
\* download_report with a format outside the four it accepts, raises its
\* validation error before _prepare_request is called: no descriptor is
\* built and nothing is dispatched, on a configured and on an unconfigured
\* object alike.
C17_ValidationFirst ==
  MissingArgument =>
    /\ IsRaised(result)
    /\ result.raised \in ValidationErrors
    /\ request = None
    /\ sent = None
    /\ data_dict = None

\* download_report with a token and the format "txt", on a configured object
\* that would have dispatched the request
C17_Witness ==
  /\ call.op = "download_report"
  /\ call.args.report_token = Some(<<"R", "1">>)
  /\ call.args.format = Some(<<"t", "x", "t">>)
  /\ llapi.configured
  /\ ~IsTrue(llapi.dry_run)
  /\ result = Raised(INVALID_FORMAT)

\* C18: get_folders issues a GET on /api/v1/vigiles/folders, with a
\* group_token parameter when a token was passed and without one when none
\* was passed on an object configured by the constructor and configure alone.
C18_GetFoldersIssuesRequest ==
  (call.op = "get_folders" /\ llapi.configured /\ ~IsTrue(llapi.dry_run)) =>
    /\ sent # None
    /\ sent[1].method = GET_METHOD
    /\ Before(sent[1].url, "?") = llapi.url[1] \o FOLDERS
    /\ (QueryValues(sent[1].url, GROUP_TOKEN) # {}) <=> (call.args.group_token # None)

\* C19: a verb called with a mapping of the caller changes that mapping only
\* by setting its email entry to the stored email: every other entry stays
\* where and as it was, a list keeping the order of its elements, and the body
\* of a POST descriptor is that mapping.
C19_MappingOnlyGainsEmail ==
  (call.op \in VerbOps /\ call.data_dict # None) =>
    LET before == call.data_dict[1]
        after == data_dict[1]
    IN  IF ~llapi.configured THEN after = before
        ELSE /\ \A i \in 1..Len(before) : before[i][1] # EMAIL => after[i] = before[i]
             /\ Keys(after) = Keys(before) \cup {EMAIL}
             /\ Len(after) = Cardinality(Keys(after))
             /\ Get(after, EMAIL) = Str(llapi.email[1])
             /\ call.op = "POST" => request[1]["data"] = after

\* a POST with the mapping of the caller, whose list is in descending order
\* and whose email is not the stored one
C19_Witness ==
  /\ call.op = "POST"
  /\ call.data_dict = Some(CALLER_DICT)
  /\ request # None
  /\ Get(data_dict[1], TAGS) = List(<< <<"b">>, <<"a">> >>)
  /\ Get(data_dict[1], EMAIL) # Get(CALLER_DICT, EMAIL)
  /\ request[1]["data"] = data_dict[1]

====
